---------------------------- MODULE Spec2Model ----------------------------
(***************************************************************************)
(* Complex<T> of src/src/complex.rs: the Cartesian pair (re, im) over a    *)
(* generic scalar T, its arithmetic (norm_sqr, scale, unscale, conj, inv,  *)
(* add, sub, mul, div, neg), its identities (zero, one, is_zero) and its   *)
(* Display.                                                                *)
(*                                                                         *)
(* The scalar T is instantiated twice, as the source does: with a          *)
(* fixed-width signed integer (the i32 of test_divide_by_zero_natural and  *)
(* test_hash) and with a binary floating-point number (the f64 of          *)
(* Complex64).  Both are modelled at a reduced width, which is a bound of  *)
(* the model: an integer of IntBits bits, and a float with FPrec bits of   *)
(* significand whose values are whole multiples of 2^-FFrac.               *)
(***************************************************************************)
EXTENDS Integers, Sequences, FiniteSets, TLC

VARIABLES
    scalar,   \* the scalar type T of this run: "int" or "float"
    checks,   \* whether integer overflow is checked (debug) or wraps (release)
    self,     \* the receiver, a Complex<T>
    other,    \* the right operand of the last binary operator, or None
    t,        \* the scalar argument of the last scale / unscale, or None
    pc,       \* "ready", or the name of the operation that was called
    res       \* what the call returned, or the panic it ended in

vars == <<scalar, checks, self, other, t, pc, res>>

\* ------------------------------------------------------------------ bounds

\* Width in bits of the fixed-width integer scalar (i32 in the source).
IntBits == 4
\* Integer operands are drawn from -IntSeed..IntSeed and the two extremes.
IntSeed == 2
\* Bits of significand of the floating scalar (53 for f64).
FPrec == 2
\* Largest binary exponent of the floating scalar, counted in units.
FEmax == 4
\* The float unit is 2^-FFrac: 1.0 is 2^FFrac units.
FFrac == 2

\* ----------------------------------------------------- scalars: failures

\* A scalar operation that does not return: a Rust panic unwinding the caller.
Panic(why) == [k |-> "panic", why |-> why]

\* Whether a result, scalar or complex, is such a failure.
IsPanic(v) == "why" \in DOMAIN v

\* ----------------------------------------------------- scalars: integers

IntMin == -(2^(IntBits - 1))

IntMax == 2^(IntBits - 1) - 1

Int_(n) == [k |-> "int", n |-> n]

\* Two's complement wrap-around of an out-of-range result.
Wrap(n) == ((n - IntMin) % (2^IntBits)) + IntMin

\* An integer result: with overflow checks (a debug build) an out-of-range
\* result panics, without them (a release build) it wraps.
IntResult(n, chk) ==
    IF IntMin <= n /\ n <= IntMax THEN Int_(n)
    ELSE IF chk THEN Panic("overflow")
    ELSE Int_(Wrap(n))

Abs(n) == IF n < 0 THEN -n ELSE n

\* Integer division rounds toward zero; a zero divisor panics in every build,
\* and so does IntMin / -1.
IntDiv(x, y) ==
    IF y = 0 THEN Panic("div_by_zero")
    ELSE IF x = IntMin /\ y = -1 THEN Panic("overflow")
    ELSE LET q == Abs(x) \div Abs(y)
         IN  Int_(IF (x < 0) = (y < 0) THEN q ELSE -q)

\* ------------------------------------------------------- scalars: floats

\* A finite float is sign s and magnitude m, a whole number of units with at
\* most FPrec significant bits; there are two zeros, two infinities and NaN.
Fin(s, m) == [k |-> "fin", s |-> s, m |-> m]

Inf(s) == [k |-> "inf", s |-> s]

NaN == [k |-> "nan"]

FMaxMag == (2^FPrec - 1) * 2^FEmax

FOneMag == 2^FFrac

\* The finite magnitudes the format represents.
FMags == { m * 2^j : m \in 0..(2^FPrec - 1), j \in 0..FEmax }

Xor(s1, s2) == IF s1 = s2 THEN 0 ELSE 1

\* The binade of the positive rational n/d: the least j >= 0 with
\* n/d < 2^(FPrec + j).
RECURSIVE Binade(_, _, _)
Binade(n, d, j) == IF n < d * 2^(FPrec + j) THEN j ELSE Binade(n, d, j + 1)

\* Round the rational n/d >= 0 (in units) to the nearest representable
\* magnitude, ties to the even significand; an overflow gives infinity.
Round(s, n, d) ==
    IF n = 0 THEN Fin(s, 0)
    ELSE LET j   == Binade(n, d, 0)
             ulp == d * 2^j
             q   == n \div ulp
             r   == n % ulp
             up  == (2 * r > ulp) \/ (2 * r = ulp /\ q % 2 = 1)
             mag == (IF up THEN q + 1 ELSE q) * 2^j
         IN  IF mag > FMaxMag THEN Inf(s) ELSE Fin(s, mag)

FNeg(x) == IF x.k = "nan" THEN NaN ELSE [x EXCEPT !.s = 1 - x.s]

\* The signed number of units of a finite float.
Units(x) == IF x.s = 1 THEN -(x.m) ELSE x.m

FAdd(x, y) ==
    IF x.k = "nan" \/ y.k = "nan" THEN NaN
    ELSE IF x.k = "inf" /\ y.k = "inf" THEN (IF x.s = y.s THEN x ELSE NaN)
    ELSE IF x.k = "inf" THEN x
    ELSE IF y.k = "inf" THEN y
    ELSE LET e == Units(x) + Units(y)
         IN  IF e = 0 THEN Fin(IF x.s = 1 /\ y.s = 1 THEN 1 ELSE 0, 0)
             ELSE Round(IF e < 0 THEN 1 ELSE 0, Abs(e), 1)

FMul(x, y) ==
    IF x.k = "nan" \/ y.k = "nan" THEN NaN
    ELSE IF x.k = "inf" \/ y.k = "inf"
         THEN (IF (x.k = "fin" /\ x.m = 0) \/ (y.k = "fin" /\ y.m = 0)
               THEN NaN ELSE Inf(Xor(x.s, y.s)))
    ELSE Round(Xor(x.s, y.s), x.m * y.m, FOneMag)

FDiv(x, y) ==
    IF x.k = "nan" \/ y.k = "nan" THEN NaN
    ELSE IF x.k = "inf" THEN (IF y.k = "inf" THEN NaN ELSE Inf(Xor(x.s, y.s)))
    ELSE IF y.k = "inf" THEN Fin(Xor(x.s, y.s), 0)
    ELSE IF y.m = 0 THEN (IF x.m = 0 THEN NaN ELSE Inf(Xor(x.s, y.s)))
    ELSE Round(Xor(x.s, y.s), x.m * FOneMag, y.m)

\* x == y of floats: NaN equals nothing, the two zeros are equal.
FEq(x, y) ==
    /\ x.k # "nan"
    /\ y.k # "nan"
    /\ \/ x = y
       \/ x.k = "fin" /\ y.k = "fin" /\ x.m = 0 /\ y.m = 0

\* f64::is_nan.
FIsNan(x) == x.k = "nan"

\* x < y of floats: false when either is NaN, the two zeros being equal.
FLt(x, y) ==
    LET ord(v) == IF v.k = "inf"
                  THEN (IF v.s = 1 THEN -(FMaxMag + 1) ELSE FMaxMag + 1)
                  ELSE Units(v)
    IN  x.k # "nan" /\ y.k # "nan" /\ ord(x) < ord(y)

\* x < 0 of a float: false of both zeros and of NaN.
FNegative(x) == x.k # "nan" /\ x.s = 1 /\ ~(x.k = "fin" /\ x.m = 0)

\* ----------------------------------------------- scalars: the trait Float

\* The elementary functions the source calls on its scalar (sin, cos, sinh,
\* cosh, ln, sqrt, hypot, atan2) with the special cases of IEEE 754 and the
\* C library.  Each is computed in fixed point, FxOne to the unit, from a
\* power series after argument reduction, and rounded to the format; on every
\* value of the format the outcome is the correctly rounded one.  Each works
\* on the magnitude and restores the sign, so the odd functions are odd and
\* the even ones even, as in a libm.

FxOne == 2^12

\* pi, pi/2, pi/4, 2 pi and ln 2 in fixed point.
FxPi == 12868

FxHalfPi == 6434

FxQuarterPi == 3217

FxTwoPi == 25736

FxLn2 == 2839

\* tan(pi/8) in fixed point: beyond it the arc tangent is reduced.
FxTanEighthPi == 1697

\* a * b in fixed point, a and b >= 0, split so that no intermediate exceeds
\* 32 bits.
FxMul(a, b) == a * (b \div FxOne) + (a * (b % FxOne)) \div FxOne

\* The magnitude of m units in fixed point, and the fixed-point value of one
\* unit's worth as the denominator Round expects.
Fx(m) == (m * FxOne) \div FOneMag

FxDen == FxOne \div FOneMag

\* sin r = r (1 - r^2/(2*3) (1 - r^2/(4*5) (1 - ...))), 0 <= r <= pi/2.
RECURSIVE SinT(_, _)
SinT(r2, k) ==
    IF k > 6 THEN FxOne
    ELSE FxOne - FxMul(r2, SinT(r2, k + 1)) \div ((2 * k) * (2 * k + 1))

\* cos r = 1 - r^2/(1*2) (1 - r^2/(3*4) (1 - ...)), 0 <= r <= pi/2.
RECURSIVE CosT(_, _)
CosT(r2, k) ==
    IF k > 6 THEN FxOne
    ELSE FxOne - FxMul(r2, CosT(r2, k + 1)) \div ((2 * k - 1) * (2 * k))

SinFx(r) == FxMul(r, SinT(FxMul(r, r), 1))

CosFx(r) == CosT(FxMul(r, r), 1)

\* f64::sin: the argument reduced modulo 2 pi, then to the first quadrant.
Fsin(x) ==
    IF x.k # "fin" THEN NaN
    ELSE IF x.m = 0 THEN x
    ELSE LET r0 == Fx(x.m) % FxTwoPi
             s1 == IF r0 >= FxPi THEN 1 - x.s ELSE x.s
             r1 == IF r0 >= FxPi THEN r0 - FxPi ELSE r0
             r2 == IF r1 > FxHalfPi THEN FxPi - r1 ELSE r1
         IN  Round(s1, SinFx(r2), FxDen)

\* f64::cos.
Fcos(x) ==
    IF x.k # "fin" THEN NaN
    ELSE LET r0 == Fx(x.m) % FxTwoPi
             r1 == IF r0 >= FxPi THEN FxTwoPi - r0 ELSE r0
         IN  IF r1 > FxHalfPi THEN Round(1, CosFx(FxPi - r1), FxDen)
             ELSE Round(0, CosFx(r1), FxDen)

\* sinh x = x (1 + x^2/(2*3) (1 + x^2/(4*5) (1 + ...))).
RECURSIVE SinhT(_, _)
SinhT(x2, k) ==
    IF k > 14 THEN FxOne
    ELSE FxOne + FxMul(x2, SinhT(x2, k + 1)) \div ((2 * k) * (2 * k + 1))

\* cosh x = 1 + x^2/(1*2) (1 + x^2/(3*4) (1 + ...)).
RECURSIVE CoshT(_, _)
CoshT(x2, k) ==
    IF k > 14 THEN FxOne
    ELSE FxOne + FxMul(x2, CoshT(x2, k + 1)) \div ((2 * k - 1) * (2 * k))

\* f64::sinh; from 8.0 on the result is beyond the format and overflows.
Fsinh(x) ==
    IF x.k # "fin" THEN x
    ELSE IF x.m >= 8 * FOneMag THEN Inf(x.s)
    ELSE Round(x.s, FxMul(Fx(x.m), SinhT(FxMul(Fx(x.m), Fx(x.m)), 1)), FxDen)

\* f64::cosh.
Fcosh(x) ==
    IF x.k = "nan" THEN NaN
    ELSE IF x.k = "inf" THEN Inf(0)
    ELSE IF x.m >= 8 * FOneMag THEN Inf(0)
    ELSE Round(0, CoshT(FxMul(Fx(x.m), Fx(x.m)), 1), FxDen)

\* The position of the leading bit of m >= 1.
RECURSIVE Log2(_)
Log2(m) == IF m < 2 THEN 0 ELSE 1 + Log2(m \div 2)

\* sum of w^(2k) / (2k+1): ln f = 2 w (1 + w^2/3 + w^4/5 + ...),
\* w = (f - 1) / (f + 1).
RECURSIVE LnT(_, _)
LnT(w2, k) ==
    IF k > 6 THEN 0
    ELSE FxOne \div (2 * k + 1) + FxMul(w2, LnT(w2, k + 1))

\* f64::ln: ln 0 is -infinity, the logarithm of a negative number NaN; the
\* argument is split into 2^e * f with 1 <= f < 2.
Fln(x) ==
    IF x.k = "nan" THEN NaN
    ELSE IF x.k = "fin" /\ x.m = 0 THEN Inf(1)
    ELSE IF x.s = 1 THEN NaN
    ELSE IF x.k = "inf" THEN x
    ELSE LET e   == Log2(x.m)
             f   == (x.m * FxOne) \div 2^e
             w   == ((f - FxOne) * FxOne) \div (f + FxOne)
             lnf == 2 * FxMul(w, LnT(FxMul(w, w), 0))
             tot == (e - FFrac) * FxLn2 + lnf
         IN  Round(IF tot < 0 THEN 1 ELSE 0, Abs(tot), FxDen)

\* The integer square root, bit by bit.
RECURSIVE ISqrt(_)
ISqrt(n) ==
    IF n < 2 THEN n
    ELSE LET r == 2 * ISqrt(n \div 4)
         IN  IF (r + 1) * (r + 1) <= n THEN r + 1 ELSE r

\* The square root of n / 4^6 units^2, rounded: the root is taken to six more
\* bits than a unit, with a sticky bit when it is not exact.
RootUnits(n) ==
    LET r == ISqrt(n)
    IN  Round(0, 2 * r + (IF r * r = n THEN 0 ELSE 1), 2^7)

\* f64::sqrt: sqrt(-0) is -0, the root of a negative number NaN.
Fsqrt(x) ==
    IF x.k = "nan" THEN NaN
    ELSE IF x.k = "fin" /\ x.m = 0 THEN x
    ELSE IF x.s = 1 THEN NaN
    ELSE IF x.k = "inf" THEN x
    ELSE RootUnits(x.m * FOneMag * 4^6)

\* f64::hypot: sqrt(x^2 + y^2) without intermediate overflow; infinite when
\* either argument is, even if the other is NaN.
Fhypot(x, y) ==
    IF x.k = "inf" \/ y.k = "inf" THEN Inf(0)
    ELSE IF x.k = "nan" \/ y.k = "nan" THEN NaN
    ELSE RootUnits((x.m * x.m + y.m * y.m) * 4^6)

\* atan w = w (1 - w^2/3 + w^4/5 - ...), 0 <= w <= tan(pi/8).
RECURSIVE AtanT(_, _)
AtanT(w2, k) ==
    IF k > 8 THEN 0
    ELSE FxOne \div (2 * k + 1) - FxMul(w2, AtanT(w2, k + 1))

AtanFx(w) == FxMul(w, AtanT(FxMul(w, w), 0))

\* atan(a / b) for 0 <= a <= b, b > 0; above tan(pi/8) through
\* atan q = pi/4 - atan((1 - q) / (1 + q)).
AtanRatio(a, b) ==
    IF (a * FxOne) \div b > FxTanEighthPi
    THEN FxQuarterPi - AtanFx(((b - a) * FxOne) \div (b + a))
    ELSE AtanFx((a * FxOne) \div b)

\* f64::atan2(y, x): the angle of the point (x, y), in [-pi, pi], with the
\* sign of y; a zero y gives 0 on the positive and pi on the negative side
\* of x, each with the sign of that zero.
Fatan2(y, x) ==
    IF x.k = "nan" \/ y.k = "nan" THEN NaN
    ELSE LET ang ==
                 IF y.k = "inf" /\ x.k = "inf"
                 THEN (IF x.s = 0 THEN FxQuarterPi ELSE FxPi - FxQuarterPi)
                 ELSE IF y.k = "inf" THEN FxHalfPi
                 ELSE IF x.k = "inf" \/ y.m = 0
                 THEN (IF x.s = 0 THEN 0 ELSE FxPi)
                 ELSE IF x.m = 0 THEN FxHalfPi
                 ELSE LET at == IF y.m <= x.m THEN AtanRatio(y.m, x.m)
                                ELSE FxHalfPi - AtanRatio(x.m, y.m)
                      IN  IF x.s = 1 THEN FxPi - at ELSE at
         IN  Round(y.s, ang, FxDen)

\* ------------------------------------------------- scalars: the trait Num

\* The operators T supplies through Num, Zero, One, Neg and PartialOrd.  An
\* operand that already panicked never reaches the operator: the first panic
\* of an expression, in evaluation order, is the expression's result.
TAdd(x, y) ==
    IF IsPanic(x) THEN x ELSE IF IsPanic(y) THEN y
    ELSE IF x.k = "int" THEN IntResult(x.n + y.n, checks) ELSE FAdd(x, y)

TSub(x, y) ==
    IF IsPanic(x) THEN x ELSE IF IsPanic(y) THEN y
    ELSE IF x.k = "int" THEN IntResult(x.n - y.n, checks) ELSE FAdd(x, FNeg(y))

TMul(x, y) ==
    IF IsPanic(x) THEN x ELSE IF IsPanic(y) THEN y
    ELSE IF x.k = "int" THEN IntResult(x.n * y.n, checks) ELSE FMul(x, y)

TDiv(x, y) ==
    IF IsPanic(x) THEN x ELSE IF IsPanic(y) THEN y
    ELSE IF x.k = "int" THEN IntDiv(x.n, y.n) ELSE FDiv(x, y)

TNeg(x) ==
    IF IsPanic(x) THEN x
    ELSE IF x.k = "int" THEN IntResult(-(x.n), checks) ELSE FNeg(x)

TZero(ty) == IF ty = "int" THEN Int_(0) ELSE Fin(0, 0)

TOne(ty) == IF ty = "int" THEN Int_(1) ELSE Fin(0, FOneMag)

\* x == y of the scalar type (PartialEq).
TEq(x, y) == IF x.k = "int" THEN x = y ELSE FEq(x, y)

TIsZero(x) == IF x.k = "int" THEN x.n = 0 ELSE FEq(x, Fin(0, 0))

\* x < T::zero() (PartialOrd).
TLtZero(x) == IF x.k = "int" THEN x.n < 0 ELSE FNegative(x)

\* ------------------------------------------------- scalars: fmt::Display

Digit(d) == <<"0", "1", "2", "3", "4", "5", "6", "7", "8", "9">>[d + 1]

\* The decimal digits of a natural number.
RECURSIVE NatText(_)
NatText(n) == IF n < 10 THEN <<Digit(n)>> ELSE NatText(n \div 10) \o <<Digit(n % 10)>>

\* The decimal digits of the fraction r / 2^FFrac, 0 <= r < 2^FFrac.
RECURSIVE FracText(_)
FracText(r) ==
    IF r = 0 THEN <<>>
    ELSE <<Digit((10 * r) \div FOneMag)>> \o FracText((10 * r) % FOneMag)

\* "{}" of a scalar, as a sequence of characters.
TText(x) ==
    IF x.k = "int"
    THEN (IF x.n < 0 THEN <<"-">> ELSE <<>>) \o NatText(Abs(x.n))
    ELSE IF x.k = "nan" THEN <<"N", "a", "N">>
    ELSE (IF x.s = 1 THEN <<"-">> ELSE <<>>) \o
         (IF x.k = "inf" THEN <<"i", "n", "f">>
          ELSE NatText(x.m \div FOneMag) \o
               (IF x.m % FOneMag = 0 THEN <<>>
                ELSE <<".">> \o FracText(x.m % FOneMag)))

\* ----------------------------------------------------------- Complex<T>

\* Complex::new(re, im): the arguments are evaluated left to right, and a
\* panic in one of them unwinds before the value is built.
new(re, im) ==
    IF IsPanic(re) THEN re ELSE IF IsPanic(im) THEN im
    ELSE [re |-> re, im |-> im]

\* The scalar type of a complex value.
TypeOf(z) == IF z.re.k = "int" THEN "int" ELSE "float"

\* The squares subtracted instead of added.
norm_sqr_minus(z) == TSub(TMul(z.re, z.re), TMul(z.im, z.im))

norm_sqr(z) == TAdd(TMul(z.re, z.re), TMul(z.im, z.im))

scale(z, x) == new(TMul(z.re, x), TMul(z.im, x))

\* The division turned around: t / re, t / im.
unscale_swapped(z, x) == new(TDiv(x, z.re), TDiv(x, z.im))

unscale(z, x) == new(TDiv(z.re, x), TDiv(z.im, x))

\* The negation forgotten.
conj_no_neg(z) == new(z.re, z.im)

conj(z) == new(z.re, TNeg(z.im))

\* The conjugation forgotten: (re / norm_sqr, im / norm_sqr).
inv_no_conj(z) ==
    LET n == norm_sqr(z)
    IN  IF IsPanic(n) THEN n
        ELSE new(TDiv(z.re, n), TDiv(z.im, n))

inv(z) ==
    LET n == norm_sqr(z)
    IN  IF IsPanic(n) THEN n
        ELSE new(TDiv(z.re, n), TDiv(TNeg(z.im), n))

add(a, b) == new(TAdd(a.re, b.re), TAdd(a.im, b.im))

sub(a, b) == new(TSub(a.re, b.re), TSub(a.im, b.im))

\* A sign slip in the real part.
mul_sign_slip(a, b) ==
    new(TAdd(TMul(a.re, b.re), TMul(a.im, b.im)),
        TAdd(TMul(a.re, b.im), TMul(a.im, b.re)))

mul(a, b) ==
    new(TSub(TMul(a.re, b.re), TMul(a.im, b.im)),
        TAdd(TMul(a.re, b.im), TMul(a.im, b.re)))

\* A sign slip in the numerators (the conjugate taken on the wrong side).
div_sign_slip(a, b) ==
    LET n == norm_sqr(b)
    IN  IF IsPanic(n) THEN n
        ELSE new(TDiv(TSub(TMul(a.re, b.re), TMul(a.im, b.im)), n),
                 TDiv(TAdd(TMul(a.im, b.re), TMul(a.re, b.im)), n))

\* A division that checks for a zero divisor first and returns zero.
div_zero_checked(a, b) ==
    LET n == norm_sqr(b)
    IN  IF IsPanic(n) THEN n
        ELSE IF TIsZero(n) THEN new(TZero(TypeOf(a)), TZero(TypeOf(a)))
        ELSE new(TDiv(TAdd(TMul(a.re, b.re), TMul(a.im, b.im)), n),
                 TDiv(TSub(TMul(a.im, b.re), TMul(a.re, b.im)), n))

div(a, b) ==
    LET n == norm_sqr(b)
    IN  IF IsPanic(n) THEN n
        ELSE new(TDiv(TAdd(TMul(a.re, b.re), TMul(a.im, b.im)), n),
                 TDiv(TSub(TMul(a.im, b.re), TMul(a.re, b.im)), n))

neg(z) == new(TNeg(z.re), TNeg(z.im))

zero(ty) == new(TZero(ty), TZero(ty))

\* One zero component taken for enough.
is_zero_either(z) == TIsZero(z.re) \/ TIsZero(z.im)

is_zero(z) == TIsZero(z.re) /\ TIsZero(z.im)

one(ty) == new(TOne(ty), TZero(ty))

\* #[derive(PartialEq)]: field-wise == of the scalar type.
eq(a, b) == TEq(a.re, b.re) /\ TEq(a.im, b.im)

\* The reference-reference implementation of a binary operator.
ref_ref_binop(method, a, b) ==
    CASE method = "add" -> add(a, b)
      [] method = "sub" -> sub(a, b)
      [] method = "mul" -> mul(a, b)
      [] method = "div" -> div(a, b)

\* ------------------------------------- Complex<T> over a Float scalar

\* |z|.
norm(z) == Fhypot(z.re, z.im)

\* The principal argument of z.
arg(z) == Fatan2(z.im, z.re)

from_polar(r, theta) == new(TMul(r, Fcos(theta)), TMul(r, Fsin(theta)))

\* ln(z) = ln|z| + i arg(z).
ln(z) == new(Fln(norm(z)), arg(z))

\* sqrt(r e^(it)) = sqrt(r) e^(it/2), through the polar form.
sqrt(z) ==
    LET two == TAdd(TOne("float"), TOne("float"))
    IN  from_polar(Fsqrt(norm(z)), TDiv(arg(z), two))

\* sin(a + bi) = sin(a)cosh(b) + i cos(a)sinh(b).
sin(z) == new(TMul(Fsin(z.re), Fcosh(z.im)), TMul(Fcos(z.re), Fsinh(z.im)))

\* cos(a + bi) = cos(a)cosh(b) - i sin(a)sinh(b).
cos(z) ==
    new(TMul(Fcos(z.re), Fcosh(z.im)), TMul(TNeg(Fsin(z.re)), Fsinh(z.im)))

\* tan(a + bi) = (sin(2a) + i sinh(2b)) / (cos(2a) + cosh(2b)).
tan(z) ==
    LET two_re == TAdd(z.re, z.re)
        two_im == TAdd(z.im, z.im)
    IN  unscale(new(Fsin(two_re), Fsinh(two_im)),
                TAdd(Fcos(two_re), Fcosh(two_im)))

\* arcsin(z) = -i ln(sqrt(1 - z^2) + iz).
asin(z) ==
    LET i == new(TZero("float"), TOne("float"))
    IN  mul(neg(i), ln(add(sqrt(sub(one("float"), mul(z, z))), mul(i, z))))

\* arccos(z) = -i ln(i sqrt(1 - z^2) + z).
acos(z) ==
    LET i == new(TZero("float"), TOne("float"))
    IN  mul(neg(i), ln(add(mul(i, sqrt(sub(one("float"), mul(z, z)))), z)))

\* The general formula applied at the branch points too.
atan_general_only(z) ==
    LET i   == new(TZero("float"), TOne("float"))
        one_ == one("float")
        two == add(one_, one_)
    IN  div(sub(ln(add(one_, mul(i, z))), ln(sub(one_, mul(i, z)))),
            mul(two, i))

\* arctan(z) = (ln(1 + iz) - ln(1 - iz)) / (2i), but for the branch points
\* i and -i, which are answered at once.
atan(z) ==
    LET i   == new(TZero("float"), TOne("float"))
        one_ == one("float")
        two == add(one_, one_)
    IN  IF eq(z, i) THEN new(TZero("float"), Inf(0))
        ELSE IF eq(z, neg(i)) THEN new(TZero("float"), FNeg(Inf(0)))
        ELSE div(sub(ln(add(one_, mul(i, z))), ln(sub(one_, mul(i, z)))),
                 mul(two, i))

\* sinh(a + bi) = sinh(a)cos(b) + i cosh(a)sin(b).
sinh(z) == new(TMul(Fsinh(z.re), Fcos(z.im)), TMul(Fcosh(z.re), Fsin(z.im)))

\* cosh(a + bi) = cosh(a)cos(b) + i sinh(a)sin(b).
cosh(z) == new(TMul(Fcosh(z.re), Fcos(z.im)), TMul(Fsinh(z.re), Fsin(z.im)))

\* tanh(a + bi) = (sinh(2a) + i sin(2b)) / (cosh(2a) + cos(2b)).
tanh(z) ==
    LET two_re == TAdd(z.re, z.re)
        two_im == TAdd(z.im, z.im)
    IN  unscale(new(Fsinh(two_re), Fsin(two_im)),
                TAdd(Fcosh(two_re), Fcos(two_im)))

\* arcsinh(z) = ln(z + sqrt(1 + z^2)).
asinh(z) == ln(add(z, sqrt(add(one("float"), mul(z, z)))))

\* arccosh(z) = 2 ln(sqrt((z + 1) / 2) + sqrt((z - 1) / 2)).
acosh(z) ==
    LET one_ == one("float")
        two == add(one_, one_)
    IN  mul(two, ln(add(sqrt(div(add(z, one_), two)),
                        sqrt(div(sub(z, one_), two)))))

\* arctanh(z) = (ln(1 + z) - ln(1 - z)) / 2, but for the branch points 1 and
\* -1, which are answered at once.
atanh(z) ==
    LET one_ == one("float")
        two == add(one_, one_)
    IN  IF eq(z, one_) THEN new(Inf(0), TZero("float"))
        ELSE IF eq(z, neg(one_)) THEN new(FNeg(Inf(0)), TZero("float"))
        ELSE div(sub(ln(add(one_, z)), ln(sub(one_, z))), two)

\* The functions of a Float scalar, by name.
Elementary ==
    {"sin", "cos", "tan", "sinh", "cosh", "tanh", "ln", "sqrt",
     "asin", "acos", "atan", "asinh", "acosh", "atanh"}

apply(f, z) ==
    CASE f = "sin" -> sin(z)     [] f = "cos" -> cos(z)
      [] f = "tan" -> tan(z)     [] f = "sinh" -> sinh(z)
      [] f = "cosh" -> cosh(z)   [] f = "tanh" -> tanh(z)
      [] f = "ln" -> ln(z)       [] f = "sqrt" -> sqrt(z)
      [] f = "asin" -> asin(z)   [] f = "acos" -> acos(z)
      [] f = "atan" -> atan(z)   [] f = "asinh" -> asinh(z)
      [] f = "acosh" -> acosh(z) [] f = "atanh" -> atanh(z)

\* The tolerance of the tests, 1e-10, as a value of the scalar type: it lies
\* below half a unit of the format and rounds to zero.
Tolerance == Round(0, 1, 2 * FOneMag + 1)

\* close(a, b) of the tests: a == b, or the norm of a - b is below the
\* tolerance.
close(a, b) == eq(a, b) \/ FLt(norm(sub(a, b)), Tolerance)

\* f64::consts::PI: pi rounded to the format.
FPi == Fatan2(Fin(0, 0), Fin(1, FOneMag))

\* -PI/2.0 <= a && a <= PI/2.0 of the tests.
InHalfPlane(a) ==
    LET half == TDiv(FPi, Fin(0, 2 * FOneMag))
    IN  a.k # "nan" /\ ~FLt(a, FNeg(half)) /\ ~FLt(half, a)

\* p equals z within a tolerance as wide as a tolerance can be: both are
\* finite and no component of p is further from z's than the size of z.
Within(p, z) ==
    LET dist(x, y) == IF Units(x) < Units(y) THEN Units(y) - Units(x)
                      ELSE Units(x) - Units(y)
    IN  /\ p.re.k = "fin" /\ p.im.k = "fin" /\ norm(z).k = "fin"
        /\ dist(p.re, z.re) <= Units(norm(z))
        /\ dist(p.im, z.im) <= Units(norm(z))

\* The branch cuts of the inverse functions that are computed without a
\* multiplication by i: the imaginary axis beyond i and -i for atan and
\* asinh, the real axis below 1 for acosh, the real axis beyond 1 and -1 for
\* atanh.
OnCut(f, z) ==
    LET one_ == Fin(0, FOneMag)
        zero_ == Fin(0, 0)
        mag(x) == IF FNegative(x) THEN FNeg(x) ELSE x
    IN  CASE f \in {"atan", "asinh"} -> FEq(z.re, zero_) /\ FLt(one_, mag(z.im))
          [] f = "acosh" -> FEq(z.im, zero_) /\ FLt(z.re, one_)
          [] f = "atanh" -> FEq(z.im, zero_) /\ FLt(one_, mag(z.re))
          [] OTHER -> FALSE

\* Both components required to be NaN.
is_nan_both(z) == FIsNan(z.re) /\ FIsNan(z.im)

is_nan(z) == FIsNan(z.re) \/ FIsNan(z.im)

\* The three forwarding shapes: each borrows what it was given by value and
\* calls the reference-reference implementation.
forward_val_val_binop(method, a, b) == ref_ref_binop(method, a, b)

forward_ref_val_binop(method, a, b) == ref_ref_binop(method, a, b)

\* The operands handed on in the wrong order.
forward_val_ref_swapped(method, a, b) == ref_ref_binop(method, b, a)

forward_val_ref_binop(method, a, b) == ref_ref_binop(method, a, b)

binop(sh, method, a, b) ==
    CASE sh = "val_val" -> forward_val_val_binop(method, a, b)
      [] sh = "ref_val" -> forward_ref_val_binop(method, a, b)
      [] sh = "val_ref" -> forward_val_ref_binop(method, a, b)
      [] sh = "ref_ref" -> ref_ref_binop(method, a, b)

\* Display::fmt: what was written to the formatter, or the panic that the
\* subtraction T::zero() - im ended in.
fmt(z) ==
    IF TLtZero(z.im)
    THEN LET m == TSub(TZero(TypeOf(z)), z.im)
         IN  IF IsPanic(m) THEN m
             ELSE [out |-> TText(z.re) \o <<"-">> \o TText(m) \o <<"i">>]
    ELSE [out |-> TText(z.re) \o <<"+">> \o TText(z.im) \o <<"i">>]

\* ------------------------------------------------------------- the calls

None == [k |-> "none"]

\* The scalars a caller passes in.  Floats are finite: the source leaves
\* NaN and infinite operands open (FIXME #1284), they arise as results only.
Scalars(ty) ==
    IF ty = "int"
    THEN { Int_(n) : n \in {IntMin, IntMax} \cup (-IntSeed..IntSeed) }
    ELSE { Fin(0, 0), Fin(1, 0), Fin(0, FOneMag), Fin(1, FOneMag),
           Fin(0, FOneMag \div 2), Fin(0, 2 * FOneMag), Fin(0, 3 * FOneMag),
           Fin(0, FMaxMag), Fin(0, 1) }

Operands(ty) == { [re |-> x, im |-> y] : x, y \in Scalars(ty) }

Methods == {"add", "sub", "mul", "div"}

Shapes == {"val_val", "ref_val", "val_ref", "ref_ref"}

Init ==
    /\ scalar \in {"int", "float"}
    /\ checks \in (IF scalar = "int" THEN BOOLEAN ELSE {FALSE})
    /\ self \in Operands(scalar)
    /\ other = None
    /\ t = None
    /\ pc = "ready"
    /\ res = None

\* self + b, self - b, self * b or self / b, in one of the four call shapes
\* (by value or by reference on either side).
CallBinop ==
    /\ pc = "ready"
    /\ \E method \in Methods, sh \in Shapes, b \in Operands(scalar) :
          /\ other' = b
          /\ pc' = method
          /\ res' = binop(sh, method, self, b)
    /\ UNCHANGED <<scalar, checks, self, t>>

\* A method that writes its result into the receiver instead of returning a
\* new value.
Unary_in_place(name, result) ==
    /\ pc = "ready"
    /\ pc' = name
    /\ res' = result
    /\ self' = IF name \in {"neg", "conj", "inv"} /\ ~IsPanic(result)
               THEN result ELSE self
    /\ UNCHANGED <<scalar, checks, other, t>>

\* A call of a method that takes the receiver alone.
Unary(name, result) ==
    /\ pc = "ready"
    /\ pc' = name
    /\ res' = result
    /\ UNCHANGED <<scalar, checks, self, other, t>>

CallNeg == Unary("neg", neg(self))

CallConj == Unary("conj", conj(self))

CallInv == Unary("inv", inv(self))

CallNormSqr == Unary("norm_sqr", norm_sqr(self))

CallIsZero == Unary("is_zero", is_zero(self))

CallFmt == Unary("fmt", fmt(self))

CallZero == Unary("zero", zero(scalar))

CallOne == Unary("one", one(scalar))

CallScale ==
    /\ pc = "ready"
    /\ \E x \in Scalars(scalar) :
          /\ t' = x
          /\ res' = scale(self, x)
    /\ pc' = "scale"
    /\ UNCHANGED <<scalar, checks, self, other>>

CallUnscale ==
    /\ pc = "ready"
    /\ \E x \in Scalars(scalar) :
          /\ t' = x
          /\ res' = unscale(self, x)
    /\ pc' = "unscale"
    /\ UNCHANGED <<scalar, checks, self, other>>

\* A call of one of the functions that exist for a Float scalar only.
FloatUnary(name, result) == scalar = "float" /\ Unary(name, result)

CallLn == FloatUnary("ln", ln(self))

CallSqrt == FloatUnary("sqrt", sqrt(self))

CallSin == FloatUnary("sin", sin(self))

CallCos == FloatUnary("cos", cos(self))

CallTan == FloatUnary("tan", tan(self))

CallAsin == FloatUnary("asin", asin(self))

CallAcos == FloatUnary("acos", acos(self))

CallAtan == FloatUnary("atan", atan(self))

CallSinh == FloatUnary("sinh", sinh(self))

CallCosh == FloatUnary("cosh", cosh(self))

CallTanh == FloatUnary("tanh", tanh(self))

CallAsinh == FloatUnary("asinh", asinh(self))

CallAcosh == FloatUnary("acosh", acosh(self))

CallAtanh == FloatUnary("atanh", atanh(self))

\* The calls that return a Complex<T>.
ComplexValued ==
    Methods \cup {"neg", "conj", "inv", "scale", "unscale", "zero", "one"}

\* is_nan called on the value the last call returned, as in
\* _0_0i.inv().is_nan(): the result records which call's value it was asked
\* of (after, z) and the answer (nan).  is_nan exists for float scalars only.
CallIsNan ==
    /\ pc \in ComplexValued
    /\ scalar = "float"
    /\ ~IsPanic(res)
    /\ pc' = "is_nan"
    /\ res' = [after |-> pc, z |-> res, nan |-> is_nan(res)]
    /\ UNCHANGED <<scalar, checks, self, other, t>>

\* The caller goes on to its next statement: the result and the arguments of
\* the call are dropped, the receiver is still bound (the c of the test loops,
\* used again after each call).
Return ==
    /\ pc # "ready"
    /\ pc' = "ready"
    /\ other' = None
    /\ t' = None
    /\ res' = None
    /\ UNCHANGED <<scalar, checks, self>>

Next ==
    \/ CallBinop
    \/ CallNeg
    \/ CallConj
    \/ CallInv
    \/ CallNormSqr
    \/ CallIsZero
    \/ CallFmt
    \/ CallZero
    \/ CallOne
    \/ CallScale
    \/ CallUnscale
    \/ CallLn
    \/ CallSqrt
    \/ CallSin
    \/ CallCos
    \/ CallTan
    \/ CallAsin
    \/ CallAcos
    \/ CallAtan
    \/ CallSinh
    \/ CallCosh
    \/ CallTanh
    \/ CallAsinh
    \/ CallAcosh
    \/ CallAtanh
    \/ CallIsNan
    \/ Return

Spec == Init /\ [][Next]_vars

\* ------------------------------------------------------------ the claims

\* The imaginary unit (0, 1) of the run's scalar type.
ImagUnit == [re |-> TZero(scalar), im |-> TOne(scalar)]

MinusOne == [re |-> TNeg(TOne(scalar)), im |-> TZero(scalar)]

\* Whether the integer n fits the integer scalar.
Fits(n) == IntMin <= n /\ n <= IntMax

\* C1: a * b = (a.re*b.re - a.im*b.im, a.re*b.im + a.im*b.re) in the scalar's
\* own arithmetic (a panic of a scalar operation is the product's outcome);
\* over integers whose products and sums fit, that is the product of the
\* Gaussian integers; and i * i = -1, i * i * i * i = 1.
MulFormula ==
    pc = "mul" =>
        /\ res = new(TSub(TMul(self.re, other.re), TMul(self.im, other.im)),
                     TAdd(TMul(self.re, other.im), TMul(self.im, other.re)))
        /\ LET a == self.re.n
               b == self.im.n
               c == other.re.n
               d == other.im.n
           IN  (/\ scalar = "int"
                /\ Fits(a * c) /\ Fits(b * d) /\ Fits(a * d) /\ Fits(b * c)
                /\ Fits(a * c - b * d) /\ Fits(a * d + b * c))
               => res = [re |-> Int_(a * c - b * d), im |-> Int_(a * d + b * c)]
        /\ (self = ImagUnit /\ other = ImagUnit) =>
               /\ eq(res, MinusOne)
               /\ eq(mul(mul(res, ImagUnit), ImagUnit), one(scalar))

\* C1's case: i * i was computed and is -1.
MulWitness ==
    /\ pc = "mul"
    /\ self = ImagUnit
    /\ other = ImagUnit
    /\ eq(res, MinusOne)

\* q is the quotient of x by y rounded toward zero.
IsTruncQuot(q, x, y) ==
    LET r == x - q * y
    IN  Abs(r) < Abs(y) /\ (r = 0 \/ (r < 0) = (x < 0))

\* C2: a / b = ((a.re*b.re + a.im*b.im) / n, (a.im*b.re - a.re*b.im) / n)
\* with n = norm_sqr(b) = b.re*b.re + b.im*b.im, each component divided by n
\* with the scalar's own division (over integers that fit: the quotient
\* rounded toward zero); and (-1,1) / (0,1) = (1,1).
DivFormula ==
    pc = "div" =>
        LET n  == TAdd(TMul(other.re, other.re), TMul(other.im, other.im))
            nr == TAdd(TMul(self.re, other.re), TMul(self.im, other.im))
            ni == TSub(TMul(self.im, other.re), TMul(self.re, other.im))
            a  == self.re.n
            b  == self.im.n
            c  == other.re.n
            d  == other.im.n
        IN  /\ n = norm_sqr(other)
            /\ res = IF IsPanic(n) THEN n ELSE new(TDiv(nr, n), TDiv(ni, n))
            /\ (/\ scalar = "int"
                /\ \A x \in {a, b, c, d}, y \in {c, d} : Fits(x * y)
                /\ Fits(c * c + d * d) /\ c * c + d * d # 0
                /\ Fits(a * c + b * d) /\ Fits(b * c - a * d))
               => /\ ~IsPanic(res)
                  /\ IsTruncQuot(res.re.n, a * c + b * d, c * c + d * d)
                  /\ IsTruncQuot(res.im.n, b * c - a * d, c * c + d * d)
            /\ (self = [re |-> TNeg(TOne(scalar)), im |-> TOne(scalar)]
                /\ other = ImagUnit)
               => eq(res, [re |-> TOne(scalar), im |-> TOne(scalar)])

\* C2's case: (-1,1) / (0,1) was computed and is (1,1).
DivWitness ==
    /\ pc = "div"
    /\ self = [re |-> TNeg(TOne(scalar)), im |-> TOne(scalar)]
    /\ other = ImagUnit
    /\ res = [re |-> TOne(scalar), im |-> TOne(scalar)]

\* C3: over the integer scalar, dividing any complex value by (0,0) ends in
\* the scalar's division-by-zero panic: no value is returned.
DivByZeroPanics ==
    (pc = "div" /\ scalar = "int" /\ other = [re |-> Int_(0), im |-> Int_(0)])
        => res = Panic("div_by_zero")

\* C3's case: (2,1) / (0,0) over integers ended in the division-by-zero panic.
DivByZeroWitness ==
    /\ pc = "div"
    /\ self = [re |-> Int_(2), im |-> Int_(1)]
    /\ other = [re |-> Int_(0), im |-> Int_(0)]
    /\ res = Panic("div_by_zero")

\* The mathematical value of a scalar product, sum and quotient, where the
\* scalar type represents it: an integer that fits, or a float of FMags units.
\* (Float values are counted in units of 2^-FFrac.)
Mag(x) == IF x.k = "int" THEN x.n ELSE Units(x)

Finite(x) == x.k = "int" \/ x.k = "fin"

\* x * y is computed exactly: no overflow, no rounding.
ExactProduct(x, y) ==
    IF x.k = "int" THEN Fits(x.n * y.n)
    ELSE /\ (x.m * y.m) % FOneMag = 0
         /\ (x.m * y.m) \div FOneMag \in FMags

\* x / y is computed exactly: y is not zero and the quotient is representable.
ExactQuotient(x, y) ==
    IF x.k = "int" THEN y.n # 0 /\ x.n % y.n = 0 /\ Fits(x.n \div y.n)
    ELSE /\ y.m # 0
         /\ (x.m * FOneMag) % y.m = 0
         /\ (x.m * FOneMag) \div y.m \in FMags

\* norm_sqr(z) is computed exactly.
ExactNormSqr(z) ==
    /\ ExactProduct(z.re, z.re)
    /\ ExactProduct(z.im, z.im)
    /\ IF z.re.k = "int" THEN Fits(z.re.n * z.re.n + z.im.n * z.im.n)
       ELSE (z.re.m * z.re.m + z.im.m * z.im.m) \div FOneMag \in FMags

\* C4 as stated: for every nonzero z, z * inv(z) = one().
InvIsInverseOfEveryNonzero ==
    (pc = "inv" /\ ~is_zero(self)) =>
        /\ ~IsPanic(res)
        /\ ~IsPanic(mul(self, res))
        /\ eq(mul(self, res), one(scalar))

\* C4, amended: inv(z) = (z.re / norm_sqr(z), -z.im / norm_sqr(z)) in the
\* scalar's arithmetic, and z * inv(z) = one() for every nonzero z whose
\* inverse is computed exactly: norm_sqr(z) without overflow or rounding, and
\* both quotients by it exact.
InvIsInverseWhenExact ==
    pc = "inv" =>
        LET n == norm_sqr(self)
        IN  /\ res = IF IsPanic(n) THEN n
                     ELSE new(TDiv(self.re, n), TDiv(TNeg(self.im), n))
            /\ (/\ ~is_zero(self)
                /\ ExactNormSqr(self)
                /\ ExactQuotient(self.re, n)
                /\ ExactQuotient(self.im, n))
               => /\ ~IsPanic(res)
                  /\ Mag(res.re) * Mag(n) = Mag(self.re) * Mag(TOne(scalar))
                  /\ Mag(res.im) * Mag(n) = -Mag(self.im) * Mag(TOne(scalar))
                  /\ ~IsPanic(mul(self, res))
                  /\ eq(mul(self, res), one(scalar))

\* C4's case: inv((1,1)) was computed over floats, it is (0.5,-0.5), and
\* (1,1) * (0.5,-0.5) is one().
InvWitness ==
    /\ pc = "inv"
    /\ scalar = "float"
    /\ self = [re |-> Fin(0, FOneMag), im |-> Fin(0, FOneMag)]
    /\ ExactNormSqr(self)
    /\ ExactQuotient(self.im, norm_sqr(self))
    /\ res = [re |-> Fin(0, FOneMag \div 2), im |-> Fin(1, FOneMag \div 2)]
    /\ eq(mul(self, res), one(scalar))

\* norm_sqr(c) is computed without integer overflow and is a nonzero finite
\* value (a float may have rounded it, but neither overflowed to infinity nor
\* underflowed to zero).
NormSqrUsable(c) ==
    LET n == norm_sqr(c)
    IN  /\ ~IsPanic(n)
        /\ Finite(n)
        /\ ~TIsZero(n)
        /\ c.re.k = "int" =>
              /\ Fits(c.re.n * c.re.n)
              /\ Fits(c.im.n * c.im.n)
              /\ Fits(c.re.n * c.re.n + c.im.n * c.im.n)

\* C5 as stated: for every nonzero c, c / c = one() exactly.
DivSelfIsOneForEveryNonzero ==
    (pc = "div" /\ other = self /\ ~is_zero(self)) =>
        /\ ~IsPanic(res)
        /\ eq(res, one(scalar))

\* C5, amended: c / c = one() for every c whose norm_sqr(c) is computed
\* without integer overflow and is a nonzero finite value.
DivSelfIsOneWhenNormUsable ==
    (pc = "div" /\ other = self /\ NormSqrUsable(self)) =>
        /\ ~IsPanic(res)
        /\ eq(res, one(scalar))

\* C5's case: (-1,1) / (-1,1) was computed and is one().
DivSelfWitness ==
    /\ pc = "div"
    /\ other = self
    /\ self = [re |-> TNeg(TOne(scalar)), im |-> TOne(scalar)]
    /\ NormSqrUsable(self)
    /\ eq(res, one(scalar))

\* C6: whichever of the four call shapes a binary operator was called in,
\* the outcome (the value, or the panic) is the outcome of every shape.
CallShapesAgree ==
    pc \in Methods =>
        \A sh \in Shapes : binop(sh, pc, self, other) = res

\* C6's cases: a quotient that every shape returns, and one where every shape
\* ends in the same panic.
CallShapesWitness ==
    /\ pc = "div"
    /\ \A sh \in Shapes : binop(sh, pc, self, other) = res
    /\ \/ IsPanic(res)
       \/ ~eq(self, other) /\ ~is_zero(res)

\* C7 as stated: for every z and nonzero t, unscale(scale(z, t), t) = z.
UnscaleUndoesEveryScale ==
    (pc = "scale" /\ ~TIsZero(t)) =>
        /\ ~IsPanic(res)
        /\ ~IsPanic(unscale(res, t))
        /\ eq(unscale(res, t), self)

\* C7, amended: scale multiplies and unscale divides both components by t,
\* and unscale(scale(z, t), t) = z for every z and nonzero t for which both
\* products z.re * t and z.im * t are computed exactly (no overflow, no
\* rounding).
UnscaleUndoesExactScale ==
    /\ pc = "scale" =>
          /\ res = new(TMul(self.re, t), TMul(self.im, t))
          /\ (/\ ~TIsZero(t)
              /\ ExactProduct(self.re, t)
              /\ ExactProduct(self.im, t))
             => /\ ~IsPanic(res)
                /\ Mag(res.re) * Mag(TOne(scalar)) = Mag(self.re) * Mag(t)
                /\ Mag(res.im) * Mag(TOne(scalar)) = Mag(self.im) * Mag(t)
                /\ ~IsPanic(unscale(res, t))
                /\ eq(unscale(res, t), self)
    /\ pc = "unscale" => res = new(TDiv(self.re, t), TDiv(self.im, t))

\* C7's case: (0.5,0.5).scale(2.0) was computed, it is (1,1), and unscaling
\* it by 2.0 gives (0.5,0.5) back.
ScaleWitness ==
    /\ pc = "scale"
    /\ self = [re |-> Fin(0, FOneMag \div 2), im |-> Fin(0, FOneMag \div 2)]
    /\ t = Fin(0, 2 * FOneMag)
    /\ res = [re |-> Fin(0, FOneMag), im |-> Fin(0, FOneMag)]
    /\ unscale(res, t) = self

NegOverflows(x) == x.k = "int" /\ x.n = IntMin

GeZero(x) == IF x.k = "int" THEN x.n >= 0 ELSE x.k # "nan" /\ ~FNegative(x)

\* C10: Display writes the text of re, then '+', the text of im and 'i' when
\* im >= 0, or '-', the text of 0 - im and 'i' when im < 0; the value written
\* after the separator is never negative; (1,0) is "1+0i", (-1,1) is "-1+1i"
\* and (1,-1) is "1-1i".
DisplayAsStated ==
    pc = "fmt" =>
        LET one_  == TOne(scalar)
            zero_ == TZero(scalar)
            neg1  == TNeg(TOne(scalar))
        IN  /\ ~IsPanic(res)
            /\ GeZero(self.im) =>
                  res.out = TText(self.re) \o <<"+">> \o TText(self.im) \o <<"i">>
            /\ TLtZero(self.im) =>
                  LET m == TSub(zero_, self.im)
                  IN  /\ ~IsPanic(m)
                      /\ ~TLtZero(m)
                      /\ res.out = TText(self.re) \o <<"-">> \o TText(m) \o <<"i">>
            /\ self = [re |-> one_, im |-> zero_] => res.out = <<"1", "+", "0", "i">>
            /\ self = [re |-> neg1, im |-> one_] => res.out = <<"-", "1", "+", "1", "i">>
            /\ self = [re |-> one_, im |-> neg1] => res.out = <<"1", "-", "1", "i">>

\* What Display does at the one input where C10 fails: im the least value of
\* the fixed-width integer.  0 - im overflows: a checked build panics inside
\* fmt, a wrapping build writes the negative im itself after the '-'.
DisplayOfLeast ==
    (pc = "fmt" /\ NegOverflows(self.im)) =>
        res = IF checks THEN Panic("overflow")
              ELSE [out |-> TText(self.re) \o <<"-">> \o TText(self.im) \o <<"i">>]

\* Everywhere else Display is as C10 states it.
DisplayUnlessLeast == (pc = "fmt" /\ ~NegOverflows(self.im)) => DisplayAsStated

\* C17: over a commutative ring scalar (the integer scalar; wrapping
\* arithmetic is the ring of integers modulo 2^IntBits), z * conj(z) is
\* (norm_sqr(z), 0): the imaginary part is zero and the real part is
\* re*re + im*im.  Where overflow is checked instead, the product ends in the
\* overflow panic exactly when norm_sqr(z) does.  Floats are not a ring; there
\* the identity holds as long as re * im does not overflow.
ConjProductIsNormSqr ==
    (pc = "mul" /\ other = conj(self)) =>
        /\ scalar = "int" =>
              /\ res = new(norm_sqr(self), TZero(scalar))
              /\ ~checks =>
                    res = [re |-> Int_(Wrap(self.re.n * self.re.n
                                            + self.im.n * self.im.n)),
                           im |-> Int_(0)]
        /\ (scalar = "float" /\ Finite(TMul(self.re, self.im))) =>
              res = new(norm_sqr(self), TZero(scalar))

\* C17's case: (2,1) * (2,-1) was computed over integers and is (5,0), with
\* norm_sqr((2,1)) = 5.
ConjProductWitness ==
    /\ pc = "mul"
    /\ self = [re |-> Int_(2), im |-> Int_(1)]
    /\ other = conj(self)
    /\ norm_sqr(self) = Int_(5)
    /\ res = [re |-> Int_(5), im |-> Int_(0)]

\* C16: no call changes its operands.  Over every step of every sequence of
\* calls the receiver keeps its re and im, and after a call the operands as
\* they now are still give the result that was returned: had the call written
\* to one of them, they would not.  (That a result is a new value is the
\* result being held apart from the operands, in res.)
OperandsNotMutated ==
    [][/\ self' = self
       /\ pc' \in Methods => res' = ref_ref_binop(pc', self', other')
       /\ pc' = "scale" => res' = scale(self', t')
       /\ pc' = "unscale" => res' = unscale(self', t')
       /\ pc' = "norm_sqr" => res' = norm_sqr(self')
       /\ pc' = "conj" => res' = conj(self')
       /\ pc' = "inv" => res' = inv(self')
       /\ pc' = "neg" => res' = neg(self')
       /\ pc' = "is_zero" => res' = is_zero(self')
       /\ pc' = "fmt" => res' = fmt(self')]_vars

\* C16's case: -(1,1) was computed: the result is (-1,-1) and the receiver is
\* still (1,1).
OperandsWitness ==
    /\ pc = "neg"
    /\ self = [re |-> TOne(scalar), im |-> TOne(scalar)]
    /\ res = [re |-> TNeg(TOne(scalar)), im |-> TNeg(TOne(scalar))]
    /\ res # self

\* C12: over floats inv((0,0)) does not fail: it returns a value with a NaN
\* component, and is_nan() of that value is true; and is_nan(z) is true
\* exactly when z.re is NaN or z.im is NaN, one NaN component being enough.
InvOfZeroIsNaN ==
    /\ (pc = "inv" /\ scalar = "float" /\ is_zero(self)) =>
          /\ ~IsPanic(res)
          /\ res.re = NaN \/ res.im = NaN
    /\ pc = "is_nan" =>
          /\ res.nan <=> (res.z.re = NaN \/ res.z.im = NaN)
          /\ (res.after = "inv" /\ is_zero(self)) => res.nan
          /\ (res.z.re = NaN /\ res.z.im # NaN) => res.nan
          /\ (res.z.re # NaN /\ res.z.im = NaN) => res.nan

\* C12's case: (0,0).inv().is_nan() was computed over floats and is true.
InvOfZeroWitness ==
    /\ pc = "is_nan"
    /\ self = [re |-> Fin(0, 0), im |-> Fin(0, 0)]
    /\ res.after = "inv"
    /\ res.z = inv(self)
    /\ res.nan

\* C12's other case: is_nan was asked of a value with one NaN component
\* only, and is true.
OneNaNWitness ==
    /\ pc = "is_nan"
    /\ res.z.re # NaN
    /\ res.z.im = NaN
    /\ res.nan

\* C11: at the branch points the inverse tangents answer with exact
\* sentinels and the general formula is not evaluated: atan((0,1)) is
\* (0, +infinity), atan((0,-1)) is (0, -infinity), atanh((1,0)) is
\* (+infinity, 0), atanh((-1,0)) is (-infinity, 0).  Every other input gets
\* the general formula, (ln(1 + iz) - ln(1 - iz)) / (2i) for atan and
\* (ln(1 + z) - ln(1 - z)) / 2 for atanh.
BranchPointSentinels ==
    LET i    == [re |-> Fin(0, 0), im |-> Fin(0, FOneMag)]
        one_ == [re |-> Fin(0, FOneMag), im |-> Fin(0, 0)]
        two  == [re |-> Fin(0, 2 * FOneMag), im |-> Fin(0, 0)]
    IN  /\ pc = "atan" =>
              IF eq(self, i) THEN res = [re |-> Fin(0, 0), im |-> Inf(0)]
              ELSE IF eq(self, neg(i))
              THEN res = [re |-> Fin(0, 0), im |-> Inf(1)]
              ELSE res = div(sub(ln(add(one_, mul(i, self))),
                                 ln(sub(one_, mul(i, self)))),
                             mul(two, i))
        /\ pc = "atanh" =>
              IF eq(self, one_) THEN res = [re |-> Inf(0), im |-> Fin(0, 0)]
              ELSE IF eq(self, neg(one_))
              THEN res = [re |-> Inf(1), im |-> Fin(0, 0)]
              ELSE res = div(sub(ln(add(one_, self)), ln(sub(one_, self))),
                             two)

\* C11's case: atan((0,1)) was computed and is (0, +infinity), which the
\* general formula does not give there (its real part would be NaN).
BranchPointWitness ==
    /\ pc = "atan"
    /\ self = [re |-> Fin(0, 0), im |-> Fin(0, FOneMag)]
    /\ res = [re |-> Fin(0, 0), im |-> Inf(0)]
    /\ atan_general_only(self) = [re |-> NaN, im |-> Inf(0)]

\* What the source gives of C13.  For sin, cos, tan, sinh, cosh, tanh, ln and
\* sqrt, f(conj(z)) and conj(f(z)) are the same value component by component
\* for every z, NaN components included.  For atan, asinh, acosh and atanh
\* they are equal component by component (or NaN in the same component) for
\* every z off the function's branch cut.
ConjSymmetryOffTheCuts ==
    LET alike(x, y) == x = y \/ FEq(x, y)
        lhs == apply(pc, conj(self))
        rhs == conj(res)
    IN  /\ pc \in {"sin", "cos", "tan", "sinh", "cosh", "tanh", "ln", "sqrt"} =>
              lhs = rhs
        /\ (pc \in {"atan", "asinh", "acosh", "atanh"} /\ ~OnCut(pc, self)) =>
              alike(lhs.re, rhs.re) /\ alike(lhs.im, rhs.im)

\* C13: for every complex value z and every f among sin, cos, tan, sinh,
\* cosh, tanh, ln, sqrt, asin, acos, atan, asinh, acosh, atanh, f(conj(z))
\* equals conj(f(z)), equality being that of the tests (close).
ConjSymmetryOfEvery ==
    pc \in Elementary => close(apply(pc, conj(self)), conj(res))

\* C13 at a constant of the tests: acosh of (0,0) and of its conjugate (0,-0)
\* are the same value (0, pi/2), whose conjugate is a different, finite value.
ConjSymmetryAtZero ==
    (pc = "acosh" /\ self = [re |-> Fin(0, 0), im |-> Fin(0, 0)]) =>
        /\ apply(pc, conj(self)) = res
        /\ Finite(res.re) /\ Finite(res.im)
        /\ ~FEq(res.im, Fin(0, 0))
        /\ ~close(apply(pc, conj(self)), conj(res))

\* What the source gives of C14.  For sin, tan, sinh and tanh, f(-z) and
\* -f(z) are the same value component by component, and so are f(-z) and
\* f(z) for cos and cosh, NaN components included; for atan and atanh, f(-z)
\* and -f(z) are equal component by component (or NaN in the same component).
ParityOfTheDirectFormulas ==
    LET alike(x, y) == x = y \/ FEq(x, y)
        lhs == apply(pc, neg(self))
    IN  /\ pc \in {"sin", "tan", "sinh", "tanh"} => lhs = neg(res)
        /\ pc \in {"cos", "cosh"} => lhs = res
        /\ pc \in {"atan", "atanh"} =>
              alike(lhs.re, neg(res).re) /\ alike(lhs.im, neg(res).im)

\* C14: for every complex value z, f(-z) equals -f(z) for f among sin, tan,
\* sinh, tanh, asin, atan, asinh, atanh, and f(-z) equals f(z) for cos and
\* cosh, equality being that of the tests (close).
ParityOfEvery ==
    /\ pc \in {"sin", "tan", "sinh", "tanh", "asin", "atan", "asinh", "atanh"} =>
          close(apply(pc, neg(self)), neg(res))
    /\ pc \in {"cos", "cosh"} => close(apply(pc, neg(self)), res)

\* C14 where the logarithm's argument cancels: asinh of 3 is finite with a
\* positive real part, asinh of -3 has the real part -infinity; asin of 3i
\* has a NaN component, asin of -3i is finite.
ParityWhereItCancels ==
    /\ (pc = "asinh" /\ self = [re |-> Fin(0, 3 * FOneMag), im |-> Fin(0, 0)]) =>
          /\ Finite(res.re) /\ Finite(res.im)
          /\ ~FNegative(res.re)
          /\ apply(pc, neg(self)).re = Inf(1)
    /\ (pc = "asin" /\ self = [re |-> Fin(0, 0), im |-> Fin(0, 3 * FOneMag)]) =>
          /\ is_nan(res)
          /\ ~is_nan(apply(pc, neg(self)))

\* What the source gives of C15.  sqrt(z) is from_polar(sqrt(norm(z)),
\* arg(z)/2) and its argument lies in [-pi/2, pi/2] for every finite z;
\* sqrt(z) * sqrt(z) is z within the tolerance for every finite z whose norm
\* is finite.
SqrtUnlessNormOverflows ==
    (pc = "sqrt" /\ Finite(self.re) /\ Finite(self.im)) =>
        /\ res = from_polar(Fsqrt(norm(self)),
                            TDiv(arg(self), Fin(0, 2 * FOneMag)))
        /\ InHalfPlane(arg(res))
        /\ Finite(norm(self)) => Within(mul(res, res), self)

\* The rest of the finite values: where the norm of z overflows, sqrt(z) has
\* an infinite component and sqrt(z) * sqrt(z) a NaN component.
SqrtWhereNormOverflows ==
    (pc = "sqrt" /\ Finite(self.re) /\ Finite(self.im) /\ ~Finite(norm(self))) =>
        /\ ~Finite(res.re) \/ ~Finite(res.im)
        /\ is_nan(mul(res, res))

\* C15: for every finite complex value z, sqrt(z) * sqrt(z) equals z within
\* numerical tolerance, the principal argument of sqrt(z) lies in
\* [-pi/2, pi/2], and sqrt(z) is from_polar(sqrt(norm(z)), arg(z)/2).
SqrtAsStated ==
    (pc = "sqrt" /\ Finite(self.re) /\ Finite(self.im)) =>
        /\ Within(mul(res, res), self)
        /\ InHalfPlane(arg(res))
        /\ res = from_polar(Fsqrt(norm(self)),
                            TDiv(arg(self), Fin(0, 2 * FOneMag)))

=============================================================================
